---- MODULE Spec2Model ----
(***************************************************************************)
(* Model of the filterable dropdown widget (dropdown.jsx, the revision     *)
(* with placeholder / disableFiltering support).                           *)
(*                                                                         *)
(* JavaScript strings are sequences of one-character strings, so that      *)
(* toLowerCase, trim and includes are computed character by character.     *)
(* null and undefined are the two sequences Null and Undefined, which are  *)
(* not strings over Chars.  A vnode is a record                            *)
(*   [type |-> "element", tag, value, children]                            *)
(* where value is the `value` prop (Undefined when the attribute is        *)
(* absent) and children is what props.children holds: a string or an       *)
(* array of strings.                                                       *)
(***************************************************************************)
EXTENDS Integers, Sequences, FiniteSets

VARIABLES
    children,         \* props.children of <Dropdown>: the array of option vnodes
    valueProp,        \* props.value: the optional starting value
    onChange,         \* TRUE iff an onChange callback was passed
    alwaysExpanded,   \* state.alwaysExpanded = props.expanded
    disableFiltering, \* props.disableFiltering
    expanded,         \* state.expanded
    filter,           \* state.filter
    value,            \* state.value
    focused,          \* whether the <input> holds the focus
    timers,           \* number of pending setTimeout(()=>setExpanded(false), 10)
    rendered,         \* the options array FilteredChildren returned in the last render
    event,            \* the event whose handler ran last
    emitted,          \* arguments of the onChange calls made by that handler, in order
    geom,             \* measurements and inline style of the input and the options panel
    pair              \* two widgets built from the same props, with and without onChange

vars == <<children, valueProp, onChange, alwaysExpanded, disableFiltering,
          expanded, filter, value, focused, timers, rendered, event, emitted,
          geom, pair>>

props == <<children, valueProp, onChange, alwaysExpanded, disableFiltering>>

-----------------------------------------------------------------------------
(* Bounds *)

\* longest text typed into the input in the filtering specification
MaxLen == 2
\* largest number of option children
MaxOpts == 2
\* largest number of collapse timers pending at once
MaxTimers == 1
\* largest width, panel top, content height and viewport height above the
\* margin, in px
MaxPx == 3

-----------------------------------------------------------------------------
(* JavaScript values *)

Chars == {"a", "A", "b", " "}

Null == <<"null">>

Undefined == <<"undefined">>

Texts(n) == UNION {[1..k -> Chars] : k \in 0..n}

\* JS truthiness of a string, null or undefined
Falsy(x) == x \in {<<>>, Null, Undefined}

\* a || b
Or(a, b) == IF Falsy(a) THEN b ELSE a

LowerChar(c) == IF c = "A" THEN "a" ELSE c

\* String.prototype.toLowerCase
toLowerCase(s) == [i \in 1..Len(s) |-> LowerChar(s[i])]

RECURSIVE trimStart(_)
trimStart(s) == IF s # <<>> /\ Head(s) = " " THEN trimStart(Tail(s)) ELSE s

RECURSIVE trimEnd(_)
trimEnd(s) ==
    IF s # <<>> /\ s[Len(s)] = " " THEN trimEnd(SubSeq(s, 1, Len(s) - 1)) ELSE s

\* String.prototype.trim
trim(s) == trimEnd(trimStart(s))

\* String.prototype.includes: t occurs in s as a contiguous substring
includes(s, t) ==
    \E i \in 0..(Len(s) - Len(t)) : SubSeq(s, i + 1, i + Len(t)) = t

RECURSIVE join(_)
\* Array.prototype.join('') of an array of strings
join(xs) == IF xs = <<>> THEN <<>> ELSE Head(xs) \o join(Tail(xs))

JsString(s) == [type |-> "string", s |-> s, items |-> <<>>]

JsArray(xs) == [type |-> "array", s |-> <<>>, items |-> xs]

Element(tag, val, kids) ==
    [type |-> "element", tag |-> tag, value |-> val, children |-> kids]

\* no event target
NoTarget == Element("none", Undefined, JsString(<<>>))

-----------------------------------------------------------------------------
(* Option extraction *)

RECURSIVE textContent(_)
\* The empty string is the falsy case of `if (!elem) return ''`.
textContent(elem) ==
    IF elem.type = "string" THEN elem.s
    ELSE IF elem.type = "array"
         THEN join([i \in 1..Len(elem.items) |-> textContent(elem.items[i])])
    ELSE textContent(elem.children)

RECURSIVE collapse(_)
\* runs of spaces collapsed to one space
collapse(s) ==
    IF Len(s) < 2 THEN s
    ELSE IF s[1] = " " /\ s[2] = " " THEN collapse(Tail(s))
    ELSE <<s[1]>> \o collapse(Tail(s))

\* evt.target.value: an <option> element reports its value attribute, or its
\* text with white space stripped and collapsed when it has none; any other
\* element has no value property.
targetValue(c) ==
    IF c.tag = "option"
    THEN IF c.value # Undefined THEN c.value ELSE collapse(trim(textContent(c)))
    ELSE Undefined

\* evt.target.getAttribute('value')
getAttribute(c) == IF c.value # Undefined THEN c.value ELSE Null

RECURSIVE elementsIn(_)
\* the elements rendered from a vnode, a string or an array of children, in
\* document order
elementsIn(node) ==
    IF node.type = "string" THEN <<>>
    ELSE IF node.type = "array"
         THEN LET from[i \in 1..(Len(node.items) + 1)] ==
                      IF i > Len(node.items) THEN <<>>
                      ELSE elementsIn(node.items[i]) \o from[i + 1]
              IN from[1]
    ELSE <<node>> \o elementsIn(node.children)

\* evt.target of a mouse-down that reaches the handler of the option rendered
\* from vnode c: the option itself or the element inside it that was pressed
hitTargets(c) == elementsIn(c)

\* evt.target.innerText of the element rendered from vnode c: the text as it
\* is displayed, runs of white space collapsed to one space and the white
\* space at both ends of the line dropped
innerText(c) == trim(collapse(textContent(c)))

-----------------------------------------------------------------------------
(* Candidate filter *)

FilteredChildrenNoTrim(kids, flt, disabled) ==
    SelectSeq(kids, LAMBDA c : includes(textContent(c), toLowerCase(flt)) \/ disabled)

FilteredChildrenNoBypass(kids, flt, disabled) ==
    SelectSeq(kids, LAMBDA c : includes(textContent(c), trim(toLowerCase(flt))))

\* FilteredChildren({children, state, disableFiltering}): the options array
FilteredChildren(kids, flt, disabled) ==
    IF Len(kids) < 1 THEN <<>>
    ELSE SelectSeq(kids,
           LAMBDA c : includes(textContent(c), trim(toLowerCase(flt))) \/ disabled)

-----------------------------------------------------------------------------
(* Initial value resolver *)

RECURSIVE findText(_, _, _)
\* the forEach loop of findChildByValue: acc is retVal.text so far
findText(kids, v, acc) ==
    IF kids = <<>> THEN acc
    ELSE findText(Tail(kids), v,
                  IF Head(kids).value = v THEN textContent(Head(kids)) ELSE acc)

\* findChildByValue(children, value).text
findChildByValue(kids, v) ==
    IF Len(kids) < 1 THEN <<>> ELSE findText(kids, v, <<>>)

\* let initialFilter = ""; if(value) initialFilter = findChildByValue(...).text
initialFilter(kids, v) == IF Falsy(v) THEN <<>> ELSE findChildByValue(kids, v)

-----------------------------------------------------------------------------
(* Viewport geometry.  geom holds what the browser reports (inputWidth,    *)
(* y, content, innerHeight), the inline style the code has written         *)
(* (styleWidth, styleHeight) and, for the properties, the scroll height    *)
(* the last run read, the style the run before it left and the number of   *)
(* runs since the measurements last changed.                               *)

\* the margin kept below the panel: window.innerHeight - 10
Margin == 10

\* style.height = '' (no inline value)
Unset == [set |-> FALSE, px |-> 0]

\* style.height = n + "px"
Px(n) == [set |-> TRUE, px |-> n]

Max(a, b) == IF a >= b THEN a ELSE b

\* The height the panel is laid out with: its inline height when one is
\* set, its content height otherwise.
clientHeight(g) ==
    IF g.styleHeight.set THEN g.styleHeight.px ELSE g.content

\* domElement.options.scrollHeight: the height of the content, and at least
\* the height of the box itself
scrollHeight(g) == Max(g.content, clientHeight(g))

\* style.width = n + "px", style.height = n + "px": a negative length is not
\* a valid value, and an assignment of an invalid value leaves the property
\* as it was
assignPx(old, n) == IF n >= 0 THEN Px(n) ELSE old

\* resizeToBounds()
resizeToBounds(g) ==
    LET height == scrollHeight(g)
    IN [g EXCEPT
          !.measured = height,
          !.styleWidth = assignPx(g.styleWidth, g.inputWidth - 1),
          !.styleHeight =
              IF height + g.y > g.innerHeight - Margin
              THEN assignPx(g.styleHeight, g.innerHeight - Margin - g.y)
              ELSE Unset]

NoPrev == <<Unset, Unset>>

Geom(w, y, c, ih) ==
    [inputWidth |-> w, y |-> y, content |-> c, innerHeight |-> ih,
     styleWidth |-> Unset, styleHeight |-> Unset,
     measured |-> c, prev |-> NoPrev, runs |-> 0]

\* the layout of the first render, before resizeToBounds has run
GeomIdle == Geom(MaxPx, 0, 0, Margin)

\* A run of resizeToBounds, from the effect or from handleInputChange; runs
\* counts the runs since the measurements last changed (up to 2) and prev is
\* the style the run before left.
resized(g) ==
    [resizeToBounds(g) EXCEPT
        !.runs = IF g.runs < 2 THEN g.runs + 1 ELSE 2,
        !.prev = IF g.runs >= 1 THEN <<g.styleWidth, g.styleHeight>> ELSE NoPrev]

-----------------------------------------------------------------------------
(* The handlers as functions of a widget state                             *)
(*   w = [expanded, filter, value, timers, emitted, geom],                 *)
(* cb telling whether state.onChange is set.  They drive the two widgets   *)
(* of pair, which receive the same events.                                 *)

Widget(kids, v) ==
    [expanded |-> FALSE, filter |-> initialFilter(kids, v),
     value |-> Or(v, <<>>), timers |-> 0, emitted |-> <<>>,
     geom |-> GeomIdle]

\* handleInputChange(evt)
inputChangeOf(w, v) ==
    [w EXCEPT !.expanded = TRUE, !.filter = v, !.emitted = <<>>,
              !.geom = resized(@)]

\* useEffect(()=>{ resizeToBounds(); })
effectOf(w) ==
    [w EXCEPT !.geom = resized(@), !.emitted = <<>>]

\* input onBlur
blurOf(w) ==
    [w EXCEPT !.timers = IF w.expanded THEN @ + 1 ELSE @, !.emitted = <<>>]

\* the setTimeout callback
timeoutOf(w) ==
    IF w.timers > 0
    THEN [w EXCEPT !.timers = @ - 1, !.expanded = FALSE, !.emitted = <<>>]
    ELSE [w EXCEPT !.emitted = <<>>]

\* handleClick(evt) for a mouse-down on the j-th element of the i-th option
\* the widget renders
clickOf(w, kids, disabled, i, j, cb) ==
    LET opts == FilteredChildren(kids, w.filter, disabled)
    IN IF i \in DOMAIN opts /\ j \in DOMAIN hitTargets(opts[i])
       THEN LET target == hitTargets(opts[i])[j]
                v == Or(targetValue(target), getAttribute(target))
            IN [w EXCEPT !.value = v, !.filter = innerText(target),
                         !.expanded = FALSE,
                         !.emitted = IF cb THEN <<v>> ELSE <<>>]
       ELSE [w EXCEPT !.emitted = <<>>]

clearOfNeedsCallback(w, cb) ==
    [w EXCEPT !.filter = <<>>,
              !.value = IF w.value # <<>> /\ cb THEN <<>> ELSE @,
              !.emitted = IF w.value # <<>> /\ cb THEN << <<>> >> ELSE <<>>]

\* btn_clear onClick
clearOf(w, cb) ==
    [w EXCEPT !.filter = IF w.filter # <<>> THEN <<>> ELSE @,
              !.value = IF w.value # <<>> THEN <<>> ELSE @,
              !.emitted = IF w.value # <<>> /\ cb THEN << <<>> >> ELSE <<>>]

\* btn_expand onClick; hadFocus: the input held the focus, so focus() fires
\* no focus event
expandClickOf(w, hadFocus) ==
    IF hadFocus THEN [w EXCEPT !.expanded = ~@, !.emitted = <<>>]
    ELSE inputChangeOf([w EXCEPT !.expanded = ~@], w.filter)

Pair(kids, v) ==
    [cb |-> Widget(kids, v), nocb |-> Widget(kids, v),
     focused |-> FALSE, last |-> "mount"]

-----------------------------------------------------------------------------
(* Inputs *)

\* The option vnodes the children are drawn from: an <option> with a value and
\* capitalised text, a second <option> with the same value whose children are
\* a blank string and a <b> element holding its text, and an <a> without a
\* value attribute.
Catalog ==
    { Element("option", <<"1">>, JsString(<<"A", "b">>)),
      Element("option", <<"1">>,
              JsArray(<<JsString(<<" ">>),
                        Element("b", Undefined, JsString(<<"a">>))>>)),
      Element("a", Undefined, JsString(<<"b">>)) }

\* the children: up to MaxOpts of them, every vnode at most once
ChildLists ==
    UNION {{kids \in [1..k -> Catalog] :
              \A i, j \in 1..k : kids[i] = kids[j] => i = j} : k \in 0..MaxOpts}

ValueProps == {Undefined, <<"1">>}

\* The texts typed in the interaction specification: empty, blank, one that
\* matches an option as written, one that matches several, one that matches
\* only when case is ignored.
TypedTexts == {<<>>, <<" ">>, <<"a">>, <<"b">>, <<"a", "b">>}

\* the last event: its kind, the text typed, evt.target, and for a
\* mouse-down the option whose handler received it
Ev(type, text, target) ==
    [type |-> type, text |-> text, target |-> target, candidate |-> NoTarget]

EvClick(c, target) ==
    [type |-> "click", text |-> <<>>, target |-> target, candidate |-> c]

-----------------------------------------------------------------------------
(* State machine: one action per event handler.  Each handler reads the    *)
(* state of the latest render and the state it leaves is the last value    *)
(* written by its setState calls; the render that follows is part of the   *)
(* action.                                                                 *)

Render == rendered' = FilteredChildren(children, filter', disableFiltering)

Init ==
    /\ children \in ChildLists
    /\ valueProp \in ValueProps
    /\ onChange \in BOOLEAN
    /\ alwaysExpanded \in BOOLEAN
    /\ disableFiltering \in BOOLEAN
    /\ expanded = FALSE
    /\ filter = initialFilter(children, valueProp)
    /\ value = Or(valueProp, <<>>)
    /\ focused = FALSE
    /\ timers = 0
    /\ rendered = FilteredChildren(children, filter, disableFiltering)
    /\ event = Ev("mount", <<>>, NoTarget)
    /\ emitted = <<>>
    /\ geom = GeomIdle
    /\ pair = Pair(children, valueProp)

handleInputChangeGuarded(v) ==
    /\ expanded' = (v # <<>> \/ alwaysExpanded)
    /\ filter' = v
    /\ geom' = resized(geom)

handleInputChangeKeepsFilter(v) ==
    /\ expanded' = TRUE
    /\ filter' = filter
    /\ geom' = resized(geom)

\* handleInputChange(evt), v = evt.target.value
handleInputChange(v) ==
    LET first == IF v # <<>> \/ alwaysExpanded THEN TRUE ELSE FALSE
        second == TRUE
    IN /\ expanded' = second
       /\ filter' = v
       /\ geom' = resized(geom)

OnInputResetsValue(t) ==
    /\ focused
    /\ handleInputChange(t)
    /\ value' = <<>>
    /\ event' = Ev("input", t, NoTarget)
    /\ emitted' = <<>>
    /\ UNCHANGED <<props, pair, focused, timers>>
    /\ Render

\* <input onInput>: the user edits the text to t
OnInput(t) ==
    /\ focused
    /\ handleInputChange(t)
    /\ event' = Ev("input", t, NoTarget)
    /\ emitted' = <<>>
    /\ UNCHANGED <<props, pair, value, focused, timers>>
    /\ Render

OnFocusCancelsTimer ==
    /\ ~focused
    /\ focused' = TRUE
    /\ handleInputChange(filter)
    /\ timers' = 0
    /\ event' = Ev("focus", <<>>, NoTarget)
    /\ emitted' = <<>>
    /\ UNCHANGED <<props, pair, value>>
    /\ Render

\* <input onFocus>: the input's value is the filter text it displays
OnFocus ==
    /\ ~focused
    /\ focused' = TRUE
    /\ handleInputChange(filter)
    /\ event' = Ev("focus", <<>>, NoTarget)
    /\ emitted' = <<>>
    /\ UNCHANGED <<props, pair, value, timers>>
    /\ Render

\* placeholder <label onClick>: focuses the input, which fires onFocus
OnLabelClick ==
    /\ Falsy(filter)
    /\ ~focused
    /\ focused' = TRUE
    /\ handleInputChange(filter)
    /\ event' = Ev("label", <<>>, NoTarget)
    /\ emitted' = <<>>
    /\ UNCHANGED <<props, pair, value, timers>>
    /\ Render

\* <input onBlur>
OnBlur ==
    /\ focused
    /\ focused' = FALSE
    /\ IF expanded
       THEN timers < MaxTimers /\ timers' = timers + 1
       ELSE timers' = timers
    /\ event' = Ev("blur", <<>>, NoTarget)
    /\ emitted' = <<>>
    /\ UNCHANGED <<props, geom, pair, expanded, filter, value>>
    /\ Render

TimerFireKeepsExpanded ==
    /\ timers > 0
    /\ timers' = timers - 1
    /\ expanded' = expanded
    /\ event' = Ev("timer", <<>>, NoTarget)
    /\ emitted' = <<>>
    /\ UNCHANGED <<props, geom, pair, filter, value, focused>>
    /\ Render

TimerFireResetsFilter ==
    /\ timers > 0
    /\ timers' = timers - 1
    /\ expanded' = FALSE
    /\ filter' = initialFilter(children, value)
    /\ event' = Ev("timer", <<>>, NoTarget)
    /\ emitted' = <<>>
    /\ UNCHANGED <<props, geom, pair, value, focused>>
    /\ Render

\* the setTimeout callback: state.setExpanded(false)
TimerFire ==
    /\ timers > 0
    /\ timers' = timers - 1
    /\ expanded' = FALSE
    /\ event' = Ev("timer", <<>>, NoTarget)
    /\ emitted' = <<>>
    /\ UNCHANGED <<props, geom, pair, filter, value, focused>>
    /\ Render

\* handleClick(evt), c the vnode evt.target was rendered from
handleClick(c) ==
    LET v == Or(targetValue(c), getAttribute(c))
    IN /\ value' = v
       /\ filter' = innerText(c)
       /\ expanded' = FALSE
       /\ emitted' = IF onChange THEN <<v>> ELSE <<>>

\* onMouseDown of the i-th option of the panel, which is shown while
\* state.expanded selects the `expanded` style
OnOptionMouseDown(i) ==
    /\ expanded
    /\ i \in DOMAIN rendered
    /\ \E j \in DOMAIN hitTargets(rendered[i]) :
          /\ handleClick(hitTargets(rendered[i])[j])
          /\ event' = EvClick(rendered[i], hitTargets(rendered[i])[j])
    /\ UNCHANGED <<props, geom, pair, focused, timers>>
    /\ Render

clearAlwaysEmits ==
    /\ filter' = <<>>
    /\ value' = <<>>
    /\ emitted' = IF onChange THEN <<(<<>>)>> ELSE <<>>

clearSilent ==
    /\ filter' = <<>>
    /\ value' = <<>>
    /\ emitted' = <<>>

\* btn_clear onClick
clear ==
    /\ filter' = IF filter # <<>> THEN <<>> ELSE filter
    /\ IF value # <<>>
       THEN /\ value' = <<>>
            /\ emitted' = IF onChange THEN <<(<<>>)>> ELSE <<>>
       ELSE /\ value' = value
            /\ emitted' = <<>>

OnClearClick ==
    /\ clear
    /\ event' = Ev("clear", <<>>, NoTarget)
    /\ UNCHANGED <<props, geom, pair, expanded, focused, timers>>
    /\ Render

\* btn_expand onClick: setExpanded(!expanded), then input.focus(), which
\* fires onFocus when the input does not hold the focus
OnExpandClick ==
    /\ IF focused
       THEN /\ expanded' = ~expanded
            /\ filter' = filter
            /\ geom' = geom
       ELSE handleInputChange(filter)
    /\ focused' = TRUE
    /\ event' = Ev("toggle", <<>>, NoTarget)
    /\ emitted' = <<>>
    /\ UNCHANGED <<props, pair, value, timers>>
    /\ Render

WidgetVars == <<children, valueProp, onChange, alwaysExpanded, disableFiltering,
                expanded, filter, value, focused, timers, rendered, event, emitted,
                pair>>

\* useEffect(()=>{ resizeToBounds(); }): runs after every render of the
\* component, those caused by its parent included
RunResize ==
    /\ geom' = resized(geom)
    /\ event' = Ev("effect", <<>>, NoTarget)
    /\ emitted' = <<>>
    /\ UNCHANGED <<props, pair, expanded, filter, value, focused, timers>>
    /\ Render

Next ==
    \/ \E t \in TypedTexts : OnInput(t)
    \/ OnFocus
    \/ OnLabelClick
    \/ OnBlur
    \/ TimerFire
    \/ \E i \in 1..MaxOpts : OnOptionMouseDown(i)
    \/ OnClearClick
    \/ OnExpandClick
    \/ RunResize

Spec == Init /\ [][Next]_vars

\* Construction with a callback, expanded not set, filtering on: the blur
\* handler and the timer read none of the three.
InitLive ==
    /\ Init
    /\ onChange
    /\ ~alwaysExpanded
    /\ ~disableFiltering

\* The host runs every callback handed to setTimeout: a pending timer fires
\* after its 10 ms, whatever the user does meanwhile.
SpecLive == InitLive /\ [][Next]_vars /\ WF_vars(TimerFire)

\* The widget under text input alone, with every text up to MaxLen typed.
NextFilter ==
    \/ \E t \in Texts(MaxLen) : OnInput(t)
    \/ OnFocus
    \/ RunResize

\* Construction without a callback: the filter does not read onChange or
\* alwaysExpanded.
InitFilter ==
    /\ Init
    /\ ~onChange
    /\ ~alwaysExpanded

SpecFilter == InitFilter /\ [][NextFilter]_vars

-----------------------------------------------------------------------------
(* The geometry engine on its own: the effect that runs resizeToBounds     *)
(* after a render, and the browser changing what it reports between runs.  *)

InitGeom ==
    /\ Init
    /\ children = <<>>
    /\ valueProp = Undefined
    /\ ~onChange
    /\ ~alwaysExpanded
    /\ ~disableFiltering

Remeasured(g) == [g EXCEPT !.runs = 0, !.prev = NoPrev]

\* the input is laid out with another width
AnchorResized(w) ==
    /\ w # geom.inputWidth
    /\ geom' = Remeasured([geom EXCEPT !.inputWidth = w])
    /\ UNCHANGED WidgetVars

\* the page is scrolled: the panel's top moves in the viewport
Scrolled(y) ==
    /\ y # geom.y
    /\ geom' = Remeasured([geom EXCEPT !.y = y])
    /\ UNCHANGED WidgetVars

\* the list of rendered options grows or shrinks
ContentChanged(c) ==
    /\ c # geom.content
    /\ geom' = Remeasured([geom EXCEPT !.content = c])
    /\ UNCHANGED WidgetVars

\* the window is resized
WindowResized(ih) ==
    /\ ih # geom.innerHeight
    /\ geom' = Remeasured([geom EXCEPT !.innerHeight = ih])
    /\ UNCHANGED WidgetVars

NextGeom ==
    \/ RunResize
    \/ \E w \in 0..MaxPx : AnchorResized(w)
    \/ \E y \in -1..MaxPx : Scrolled(y)
    \/ \E c \in 0..MaxPx : ContentChanged(c)
    \/ \E ih \in Margin..(Margin + MaxPx) : WindowResized(ih)

SpecGeom == InitGeom /\ [][NextGeom]_vars

-----------------------------------------------------------------------------
(* Two widgets built from the same props, one with an onChange callback    *)
(* and one without, receiving the same events.  An event is delivered when *)
(* the widget with the callback can receive it.                            *)

AllButPair == <<children, valueProp, onChange, alwaysExpanded, disableFiltering,
                expanded, filter, value, focused, timers, rendered, event, emitted,
                geom>>

Both(last, hasFocus, withCb, without) ==
    [cb |-> withCb, nocb |-> without, focused |-> hasFocus, last |-> last]

PairInput(t) ==
    /\ pair.focused
    /\ pair' = Both("input", TRUE, inputChangeOf(pair.cb, t), inputChangeOf(pair.nocb, t))
    /\ UNCHANGED AllButPair

PairFocus ==
    /\ ~pair.focused
    /\ pair' = Both("focus", TRUE, inputChangeOf(pair.cb, pair.cb.filter),
            inputChangeOf(pair.nocb, pair.nocb.filter))
    /\ UNCHANGED AllButPair

PairBlur ==
    /\ pair.focused
    /\ pair.cb.expanded => pair.cb.timers < MaxTimers
    /\ pair' = Both("blur", FALSE, blurOf(pair.cb), blurOf(pair.nocb))
    /\ UNCHANGED AllButPair

PairTimeout ==
    /\ pair.cb.timers > 0
    /\ pair' = Both("timer", pair.focused, timeoutOf(pair.cb), timeoutOf(pair.nocb))
    /\ UNCHANGED AllButPair

PairOptionMouseDown(i) ==
    /\ pair.cb.expanded
    /\ i \in DOMAIN FilteredChildren(children, pair.cb.filter, disableFiltering)
    /\ \E j \in DOMAIN hitTargets(FilteredChildren(children, pair.cb.filter,
                                                    disableFiltering)[i]) :
          pair' = Both("click", pair.focused,
                       clickOf(pair.cb, children, disableFiltering, i, j, TRUE),
                       clickOf(pair.nocb, children, disableFiltering, i, j, FALSE))
    /\ UNCHANGED AllButPair

PairClearClick ==
    /\ pair' = Both("clear", pair.focused, clearOf(pair.cb, TRUE), clearOf(pair.nocb, FALSE))
    /\ UNCHANGED AllButPair

PairExpandClick ==
    /\ pair' = Both("toggle", TRUE, expandClickOf(pair.cb, pair.focused),
         expandClickOf(pair.nocb, pair.focused))
    /\ UNCHANGED AllButPair

PairEffect ==
    /\ pair' = Both("effect", pair.focused, effectOf(pair.cb), effectOf(pair.nocb))
    /\ UNCHANGED AllButPair

NextPair ==
    \/ \E t \in TypedTexts : PairInput(t)
    \/ PairFocus
    \/ PairBlur
    \/ PairTimeout
    \/ \E i \in 1..MaxOpts : PairOptionMouseDown(i)
    \/ PairClearClick
    \/ PairExpandClick
    \/ PairEffect

SpecPair == Init /\ [][NextPair]_vars

-----------------------------------------------------------------------------
(* Properties *)

\* The candidates the filtering rule describes: the options whose text,
\* lower-cased and trimmed, contains the filter text lower-cased and trimmed.
Matching(kids, t) ==
    SelectSeq(kids, LAMBDA c :
        includes(trim(toLowerCase(textContent(c))), trim(toLowerCase(t))))

RECURSIVE FirstMatchText(_, _)
\* the text of the first option of kids whose value is v, "" when there is none
FirstMatchText(kids, v) ==
    IF kids = <<>> THEN <<>>
    ELSE IF Head(kids).value = v THEN textContent(Head(kids))
    ELSE FirstMatchText(Tail(kids), v)

\* C1: after a candidate with value v and display text txt (its flattened
\* text) is activated, state.value = v, state.filter = txt, the panel is
\* collapsed, and the supplied callback was called exactly once, with v.
C1_ActivationCommits ==
    (event.type = "click" /\ event.candidate.value # Undefined) =>
        /\ value = event.candidate.value
        /\ filter = textContent(event.candidate)
        /\ expanded = FALSE
        /\ emitted = IF onChange THEN <<event.candidate.value>> ELSE <<>>

\* C2: a click on the clear button leaves state.filter = "" and
\* state.value = "", calls the supplied callback with "" exactly when
\* state.value was not "" before, and changes nothing when both were "".
C2_ClearResets ==
    [][event'.type = "clear" =>
          /\ filter' = <<>>
          /\ value' = <<>>
          /\ emitted' = (IF value # <<>> /\ onChange THEN << <<>> >> ELSE <<>>)
          /\ (filter = <<>> /\ value = <<>>) =>
                 /\ UNCHANGED <<filter, value, expanded, rendered>>
                 /\ emitted' = <<>>]_vars

C2_Witness ==
    /\ event.type = "clear"
    /\ onChange
    /\ emitted = << <<>> >>
    /\ filter = <<>>
    /\ value = <<>>

\* C3: with filtering enabled the candidate list is the sub-sequence of the
\* options whose text, lower-cased and trimmed, contains the filter text
\* lower-cased and trimmed.
C3_FilterIgnoresCase ==
    ~disableFiltering => rendered = Matching(children, filter)

\* C4: with filtering disabled the candidate list is the whole option list,
\* whatever the filter text.
C4_DisabledShowsAll ==
    disableFiltering => rendered = children

C4_Witness ==
    /\ disableFiltering
    /\ event.type = "input"
    /\ Len(children) = 2
    /\ rendered = children
    /\ \E i \in DOMAIN children :
           ~includes(textContent(children[i]), trim(toLowerCase(filter)))

\* C5: when the filter text is empty or blank, no option is excluded.
C5_EmptyFilterKeepsAll ==
    trim(filter) = <<>> => rendered = children

C5_Witness ==
    /\ event.type = "input"
    /\ filter = <<" ">>
    /\ ~disableFiltering
    /\ Len(children) = 2
    /\ rendered = children

\* C6: on construction the filter text is the text of the first option whose
\* value equals the initial value, and "" when the initial value is falsy or
\* matches no option.
C6_InitialFilterFirstMatch ==
    event.type = "mount" =>
        filter = IF Falsy(valueProp) THEN <<>>
                 ELSE FirstMatchText(children, valueProp)

\* C7: activating a candidate without a value attribute sets state.filter to
\* its text and calls the callback neither with undefined or null nor with "".
C7_NoValueNoCallback ==
    (event.type = "click" /\ event.candidate.value = Undefined) =>
        /\ filter = textContent(event.candidate)
        /\ \A i \in DOMAIN emitted : emitted[i] \notin {Undefined, Null, <<>>}

\* C8: after the input gains focus the panel is expanded, whatever the filter
\* text and the expanded prop.
C8_FocusExpands ==
    event.type \in {"focus", "label"} => expanded

C8_Witness ==
    /\ event.type = "focus"
    /\ filter = <<>>
    /\ ~alwaysExpanded
    /\ expanded

\* C9: with the expanded prop false, focusing the input while the filter text
\* is empty does not expand the panel.
C9_FocusEmptyStaysCollapsed ==
    (event.type = "focus" /\ ~alwaysExpanded /\ filter = <<>>) => ~expanded

\* C10: after a text-input event that changes the text to t, state.filter = t
\* and the panel is expanded, also for t = "" with the expanded prop false.
C10_InputSetsFilterAndExpands ==
    event.type = "input" => (filter = event.text /\ expanded)

C10_Witness ==
    /\ event.type = "input"
    /\ event.text = <<>>
    /\ ~alwaysExpanded
    /\ filter = <<>>
    /\ expanded

\* C11: a click on the expand button, with the refocus of the input and the
\* focus event that refocus fires, leaves state.expanded the negation of what
\* it was before the click.
C11_ToggleNegates ==
    [][event'.type = "toggle" => expanded' = ~expanded]_vars

\* the style the last run of resizeToBounds left
StyleNow == <<geom.styleWidth, geom.styleHeight>>

\* C12: after a run of the geometry engine the panel width is the anchor
\* width minus 1, and the height override is viewportHeight - 10 - panelTop
\* when panelTop + naturalHeight > viewportHeight - 10 and cleared otherwise,
\* naturalHeight being the scroll height the run measured.
C12_ResizeArithmetic ==
    geom.runs >= 1 =>
        /\ geom.styleWidth = Px(geom.inputWidth - 1)
        /\ geom.styleHeight =
              IF geom.y + geom.measured > geom.innerHeight - 10
              THEN Px(geom.innerHeight - 10 - geom.y)
              ELSE Unset

\* C13: a second run of the geometry engine with unchanged anchor width,
\* panel top, content and viewport height leaves the panel width and the
\* height override as the first run left them.
C13_ResizeIdempotent ==
    geom.runs >= 2 => StyleNow = geom.prev

\* C19: after a run of the geometry engine the effective panel height h (the
\* override when set, the natural height otherwise) satisfies h >= 0 and
\* panelTop + h <= viewportHeight - 10.
C19_NeverOverflows ==
    geom.runs >= 1 =>
        LET h == IF geom.styleHeight.set THEN geom.styleHeight.px
                 ELSE geom.content
        IN h >= 0 /\ geom.y + h <= geom.innerHeight - 10

\* C14: with a callback supplied, every handler that assigns state.value calls
\* the callback exactly once with the assigned value, and a handler that
\* makes no call leaves state.value as it was: the argument of the latest
\* call is state.value.
C14_CallbackTracksValue ==
    [][onChange =>
          /\ emitted' # <<>> => emitted' = <<value'>>
          /\ event'.type = "click" => emitted' = <<value'>>
          /\ emitted' = <<>> => value' = value]_vars

C14_Witness ==
    /\ event.type = "click"
    /\ onChange
    /\ valueProp = Undefined
    /\ value = <<"1">>
    /\ emitted = <<value>>

\* C15: a widget built without a callback goes through the same
\* state.filter, state.expanded and state.value (and pending timers) as one
\* built with a callback that receives the same events, and calls nothing.
C15_CallbackOptional ==
    /\ pair.nocb.filter = pair.cb.filter
    /\ pair.nocb.expanded = pair.cb.expanded
    /\ pair.nocb.value = pair.cb.value
    /\ pair.nocb.timers = pair.cb.timers
    /\ pair.nocb.emitted = <<>>

C15_Witness ==
    /\ pair.last = "click"
    /\ valueProp = Undefined
    /\ pair.cb.emitted = << <<"1">> >>
    /\ pair.nocb.emitted = <<>>
    /\ pair.nocb.value = <<"1">>
    /\ pair.nocb.filter = <<"A", "b">>
    /\ ~pair.nocb.expanded

\* C16: once the input has lost the focus while the panel was expanded, the
\* scheduled collapse eventually runs and state.expanded is false (the timer
\* being fair); a blur while the panel is collapsed schedules nothing and
\* leaves the state as it is.
C16_BlurCollapses ==
    /\ (event.type = "blur" /\ timers > 0) ~> (event.type = "timer" /\ ~expanded)
    /\ [][event'.type = "blur" /\ ~expanded =>
             /\ timers' = timers
             /\ UNCHANGED <<expanded, filter, value, rendered>>
             /\ emitted' = <<>>]_vars

C16_Witness ==
    /\ event.type = "timer"
    /\ ~focused
    /\ ~expanded
    /\ timers = 0

C18_CollapseNeverCancelled ==
    [][/\ event'.type # "timer" => timers' >= timers
       /\ event'.type = "timer" =>
            /\ timers' = timers - 1
            /\ ~expanded'
            /\ focused' = focused
      ]_vars

C18_Witness ==
    /\ event.type = "timer"
    /\ focused
    /\ ~expanded
    /\ filter = <<"a">>

\* C20: only an option activation and the clear button change state.value;
\* input, focus, blur, the collapse timer and the expand button leave it
\* unchanged and call no callback.
C20_ValueFrame ==
    [][event'.type \notin {"click", "clear"} =>
            /\ value' = value
            /\ emitted' = <<>>
      ]_vars

C20_Witness ==
    /\ event.type = "input"
    /\ event.text = <<"b">>
    /\ onChange
    /\ valueProp = Undefined
    /\ value = <<"1">>
    /\ filter = <<"b">>
    /\ emitted = <<>>

====
